---- MODULE Spec2Model ----
(***************************************************************************)
(* OpenRouterContentGenerator (packages/core/src/core/                     *)
(* openRouterContentGenerator.ts): the four public operations of the       *)
(* adapter and the server-sent-event decoder returned by                   *)
(* generateContentStream.                                                  *)
(*                                                                         *)
(* Text is a sequence of code points, the wire a sequence of bytes.  An    *)
(* asynchronous function is cut at its suspension points: every action is  *)
(* the code that runs between two awaits / yields.                         *)
(***************************************************************************)
EXTENDS Integers, Sequences, FiniteSets, TLC

(***************************************************************************)
(* Bounds of the model.                                                    *)
(***************************************************************************)
\* Lines (frames) per served byte stream.
MaxLines == 2
\* Turns per request content list.
MaxTurns == 2

(***************************************************************************)
(* Strings.                                                                *)
(***************************************************************************)
Newline == 10

\* String.prototype.trim strips these (the WhiteSpace and LineTerminator
\* code points that a one- or two-byte UTF-8 sequence can encode).
Whitespace == {9, 10, 11, 12, 13, 32, 160}

Last(s) == s[Len(s)]

StartsWith(s, p) == Len(s) >= Len(p) /\ SubSeq(s, 1, Len(p)) = p

EndsWith(s, p) == Len(s) >= Len(p) /\ SubSeq(s, Len(s) - Len(p) + 1, Len(s)) = p

Slice(s, n) == SubSeq(s, n + 1, Len(s))

Trim(s) ==
  IF \A i \in 1..Len(s) : s[i] \in Whitespace THEN <<>>
  ELSE IF s[1] \notin Whitespace /\ s[Len(s)] \notin Whitespace THEN s
  ELSE LET lo == CHOOSE i \in 1..Len(s) :
                   s[i] \notin Whitespace /\ \A j \in 1..(i - 1) : s[j] \in Whitespace
           hi == CHOOSE i \in 1..Len(s) :
                   s[i] \notin Whitespace /\ \A j \in (i + 1)..Len(s) : s[j] \in Whitespace
       IN  SubSeq(s, lo, hi)

RECURSIVE Split(_)
\* buffer.split('\n'): always at least one element.
Split(s) ==
  IF \A i \in 1..Len(s) : s[i] # Newline THEN <<s>>
  ELSE LET i == CHOOSE k \in 1..Len(s) :
                  s[k] = Newline /\ \A j \in 1..(k - 1) : s[j] # Newline
       IN  <<SubSeq(s, 1, i - 1)>> \o Split(SubSeq(s, i + 1, Len(s)))

RECURSIVE Join(_)
\* Array.prototype.join('') over strings.
Join(ss) == IF ss = <<>> THEN <<>> ELSE Head(ss) \o Join(Tail(ss))

(***************************************************************************)
(* TextDecoder (UTF-8): the decoder of the WHATWG Encoding standard,       *)
(* for bytes below 0xE0 (one- and two-byte sequences).  `pending` is the   *)
(* lead byte of a sequence whose continuation byte has not arrived, 0 when *)
(* there is none.                                                          *)
(***************************************************************************)
Replacement == 65533

IsLead(b) == b >= 194 /\ b <= 223
IsContinuation(b) == b >= 128 /\ b <= 191

RECURSIVE Utf8(_, _, _)
\* The bytes below 0x80 stand for themselves; a run of them is taken at once.
Utf8(pending, bytes, acc) ==
  IF bytes = <<>> THEN [text |-> acc, pending |-> pending]
  ELSE IF pending # 0
  THEN IF IsContinuation(Head(bytes))
       THEN Utf8(0, Tail(bytes), Append(acc, (pending % 32) * 64 + (Head(bytes) % 64)))
       ELSE Utf8(0, bytes, Append(acc, Replacement))
  ELSE IF \A i \in 1..Len(bytes) : bytes[i] < 128
  THEN [text |-> acc \o bytes, pending |-> 0]
  ELSE LET i == CHOOSE k \in 1..Len(bytes) :
                  bytes[k] >= 128 /\ \A j \in 1..(k - 1) : bytes[j] < 128
           before == acc \o SubSeq(bytes, 1, i - 1)
           after == SubSeq(bytes, i + 1, Len(bytes))
       IN  IF IsLead(bytes[i]) THEN Utf8(bytes[i], after, before)
           ELSE Utf8(0, after, Append(before, Replacement))

\* decoder.decode(value) without {stream: true}: an unfinished sequence at the
\* end of the chunk is flushed as U+FFFD and the decoder starts afresh.
DecodeFlushing(pending, bytes) ==
  LET r == Utf8(0, bytes, <<>>)
  IN  [text |-> IF r.pending # 0 THEN Append(r.text, Replacement) ELSE r.text,
       pending |-> 0]

\* decoder.decode(value, { stream: true })
Decode(pending, bytes) == Utf8(pending, bytes, <<>>)

(***************************************************************************)
(* The wire vocabulary.                                                    *)
(***************************************************************************)
\* 'data: '
DataPrefix == <<100, 97, 116, 97, 58, 32>>
\* 'data: [DONE]'
DoneFrame == <<100, 97, 116, 97, 58, 32, 91, 68, 79, 78, 69, 93>>
\* '{"choices":[{"delta":{"content":"'
ContentOpen ==
  <<123, 34, 99, 104, 111, 105, 99, 101, 115, 34, 58, 91, 123, 34, 100, 101,
    108, 116, 97, 34, 58, 123, 34, 99, 111, 110, 116, 101, 110, 116, 34, 58, 34>>
\* '"}}]}'
CloseNoFinish == <<34, 125, 125, 93, 125>>
\* '"},"finish_reason":null}]}'
CloseNullFinish ==
  <<34, 125, 44, 34, 102, 105, 110, 105, 115, 104, 95, 114, 101, 97, 115, 111,
    110, 34, 58, 110, 117, 108, 108, 125, 93, 125>>
\* '"},"finish_reason":"'
FinishOpen ==
  <<34, 125, 44, 34, 102, 105, 110, 105, 115, 104, 95, 114, 101, 97, 115, 111,
    110, 34, 58, 34>>
\* '"}]}'
FinishClose == <<34, 125, 93, 125>>
\* '{"choices":[{"delta":{}'
EmptyDeltaOpen ==
  <<123, 34, 99, 104, 111, 105, 99, 101, 115, 34, 58, 91, 123, 34, 100, 101,
    108, 116, 97, 34, 58, 123, 125>>
\* '{"choices":[]}'
EmptyChoices == <<123, 34, 99, 104, 111, 105, 99, 101, 115, 34, 58, 91, 93, 125>>
\* 'null'
NullText == <<110, 117, 108, 108>>
\* '{"error":"x"}'
ErrorObject == <<123, 34, 101, 114, 114, 111, 114, 34, 58, 34, 120, 34, 125>>
\* 'not-json'
NotJson == <<110, 111, 116, 45, 106, 115, 111, 110>>
\* 'stop'
Stop == <<115, 116, 111, 112>>
\* 'Hi'
Hi == <<72, 105>>
\* 'ok'
Ok == <<111, 107>>

(***************************************************************************)
(* JSON.parse on the payloads of this vocabulary: the documents            *)
(*   null | {"error":"x"} | {"choices":[]} | {"choices":[{"delta":D F}]}   *)
(* with D = {} or {"content":"<plain characters>"} and F = nothing,        *)
(* ,"finish_reason":null or ,"finish_reason":"<plain characters>".  Every  *)
(* other text over the vocabulary (a cut or garbled frame included) is no  *)
(* JSON document and raises SyntaxError.                                   *)
(***************************************************************************)
\* Characters a JSON string holds unescaped.
IsPlain(s) == \A i \in 1..Len(s) : s[i] >= 32 /\ s[i] # 34 /\ s[i] # 92

SyntaxError == [tag |-> "syntax", hasContent |-> FALSE, content |-> <<>>,
                finishKind |-> "absent", finish |-> <<>>]

JsonValue(tag) == [SyntaxError EXCEPT !.tag = tag]

Choice(hasContent, content, finishKind, finish) ==
  [tag |-> "choice", hasContent |-> hasContent, content |-> content,
   finishKind |-> finishKind, finish |-> finish]

\* The text after the delta object: the rest of the choice and the document.
ParseFinish(hasContent, content, tail) ==
  IF tail = CloseNoFinish THEN Choice(hasContent, content, "absent", <<>>)
  ELSE IF tail = CloseNullFinish THEN Choice(hasContent, content, "null", <<>>)
  ELSE IF /\ StartsWith(tail, FinishOpen)
          /\ EndsWith(tail, FinishClose)
          /\ Len(tail) >= Len(FinishOpen) + Len(FinishClose)
          /\ IsPlain(SubSeq(tail, Len(FinishOpen) + 1, Len(tail) - Len(FinishClose)))
  THEN Choice(hasContent, content, "string",
              SubSeq(tail, Len(FinishOpen) + 1, Len(tail) - Len(FinishClose)))
  ELSE SyntaxError

JsonParse(p) ==
  IF p = NullText THEN JsonValue("null")
  ELSE IF p = ErrorObject THEN JsonValue("nochoices")
  ELSE IF p = EmptyChoices THEN JsonValue("emptychoices")
  ELSE IF StartsWith(p, ContentOpen)
  THEN LET rest == Slice(p, Len(ContentOpen))
       IN  IF \A i \in 1..Len(rest) : rest[i] # 34 THEN SyntaxError
           ELSE LET q == CHOOSE i \in 1..Len(rest) :
                           rest[i] = 34 /\ \A j \in 1..(i - 1) : rest[j] # 34
                    content == SubSeq(rest, 1, q - 1)
                IN  IF IsPlain(content)
                    THEN ParseFinish(TRUE, content, Slice(rest, q - 1))
                    ELSE SyntaxError
  ELSE IF StartsWith(p, EmptyDeltaOpen)
  \* The delta object is empty; what follows it is what follows a content
  \* string's closing quote and brace.
  THEN ParseFinish(FALSE, <<>>, <<34, 125>> \o Slice(p, Len(EmptyDeltaOpen)))
  ELSE SyntaxError

(***************************************************************************)
(* The body of the for loop of generateContentStream: one complete line.   *)
(* A step is skip (continue with the next line), yield (suspend with a     *)
(* value), return (end the generator) or throw.                            *)
(***************************************************************************)
NoValue == [text |-> <<>>, partsText |-> <<>>, role |-> "", finishReason |-> <<>>]

Step(kind, value) == [kind |-> kind, value |-> value]

\* The finish reason is left out of the value.
FinishReasonDropped(data) == <<>>

\* data.choices[0]?.finish_reason || undefined  (<<>> stands for undefined)
FinishReason(data) ==
  IF data.finishKind = "string" /\ data.finish # <<>> THEN data.finish ELSE <<>>

\* The object of the yield expression.
PartialResponse(content, data) ==
  [text |-> content, partsText |-> content, role |-> "model",
   finishReason |-> FinishReason(data)]

\* A test for presence only: '' passes.
TruthyIfPresent(data) == TRUE

\* if (content): undefined, null and '' are falsy.
Truthy(data) == data.hasContent /\ data.content # <<>>

\* A document without a choices list ends the stream.
TryBodyEndsOnError(payload) ==
  LET data == JsonParse(payload)
  IN  IF data.tag = "syntax" THEN Step("throw", NoValue)
      ELSE IF data.tag \in {"null", "nochoices", "emptychoices"}
      THEN Step("return", NoValue)
      ELSE IF data.tag = "choice" /\ data.hasContent /\ data.content # <<>>
      THEN Step("yield", [text |-> data.content, partsText |-> data.content,
                          role |-> "model",
                          finishReason |-> IF data.finishKind = "string"
                                           THEN data.finish ELSE <<>>])
      ELSE Step("skip", NoValue)

\* The try block: JSON.parse, data.choices[0]?.delta?.content, the yield.
\* JSON.parse throws SyntaxError; data.choices[0] throws TypeError when data
\* is null or has no choices.
TryBody(payload) ==
  LET data == JsonParse(payload)
  IN  IF data.tag \in {"syntax", "null", "nochoices"} THEN Step("throw", NoValue)
      ELSE IF data.tag = "choice" /\ Truthy(data)
      THEN Step("yield", PartialResponse(data.content, data))
      ELSE Step("skip", NoValue)

\* No catch: the error leaves the loop.
CatchNothing(step) == step

\* catch (e) { }: the error is dropped and the loop goes on.
Catch(step) == IF step.kind = "throw" THEN Step("skip", NoValue) ELSE step

\* The sentinel test left out.
IsDoneNever(trimmed) == FALSE

\* if (trimmed === 'data: [DONE]') return;
IsDone(trimmed) == trimmed = DoneFrame

ProcessLine(line) ==
  LET trimmed == Trim(line)
  IN  IF trimmed = <<>> THEN Step("skip", NoValue)
      ELSE IF IsDone(trimmed) THEN Step("return", NoValue)
      ELSE IF StartsWith(trimmed, DataPrefix)
      THEN Catch(TryBody(Slice(trimmed, 6)))
      ELSE Step("skip", NoValue)

RECURSIVE RunLines(_)
\* for (const line of lines) from the current line on, up to the first step
\* that leaves the loop; rest: the lines after it.
RunLines(lines) ==
  IF lines = <<>> THEN [kind |-> "exhausted", value |-> NoValue, rest |-> <<>>]
  ELSE LET step == ProcessLine(Head(lines))
       IN  IF step.kind = "skip" THEN RunLines(Tail(lines))
           ELSE [kind |-> step.kind, value |-> step.value, rest |-> Tail(lines)]

\* buffer = lines.pop() || ''
PopBuffer(lines) == Last(lines)

\* lines after lines.pop()
Popped(lines) == SubSeq(lines, 1, Len(lines) - 1)

(***************************************************************************)
(* RequestTranslator and ResponseTranslator.                               *)
(* A Turn is [role, parts]; role "" is an absent role; a part is           *)
(* [hasText, text], a non-text part having hasText = FALSE.                *)
(***************************************************************************)
TextPart(t) == [hasText |-> TRUE, text |-> t]
NonTextPart == [hasText |-> FALSE, text |-> <<>>]

\* Two roles only: whatever is not 'model' becomes 'user'.
MapRoleTwoValued(role) == IF role = "model" THEN "assistant" ELSE "user"

\* content.role === 'model' ? 'assistant' : content.role; if (!role) role = 'user'
MapRole(role) ==
  LET mapped == IF role = "model" THEN "assistant" ELSE role
  IN  IF mapped = "" THEN "user" ELSE mapped

RECURSIVE TextsOf(_)
\* parts.filter(p => 'text' in p && p.text).map(p => p.text)
TextsOf(parts) ==
  IF parts = <<>> THEN <<>>
  ELSE IF Head(parts).hasText /\ Head(parts).text # <<>>
       THEN <<Head(parts).text>> \o TextsOf(Tail(parts))
       ELSE TextsOf(Tail(parts))

ConvertTurn(turn) == [role |-> MapRole(turn.role), content |-> Join(TextsOf(turn.parts))]

\* contents is a string, an array of Turns, or anything else.
convertContentsToMessages(contents) ==
  IF contents.type = "string" THEN <<[role |-> "user", content |-> contents.str]>>
  ELSE IF contents.type # "array" THEN <<>>
  ELSE [i \in 1..Len(contents.turns) |-> ConvertTurn(contents.turns[i])]

\* The request body; temperature, top_p and max_tokens are copied from the
\* request's config and play no part in what follows.
RequestBody(model, contents, stream) ==
  [model |-> model, messages |-> convertContentsToMessages(contents), stream |-> stream]

NoBody == [model |-> "", messages |-> <<>>, stream |-> FALSE]
NoContents == [type |-> "other", str |-> <<>>, turns |-> <<>>]

NoResult == [made |-> FALSE, text |-> <<>>, partsText |-> <<>>, role |-> "",
             finishKind |-> "absent", finishReason |-> <<>>]

\* `data` before response.json() has given it.
NoData == JsonValue("unread")

\* data.choices[0] on a document without choices (or on null) throws TypeError.
ResponseThrows(data) == data.tag \in {"null", "nochoices"}

\* data.choices[0]?.message?.content || ''  and  data.choices[0]?.finish_reason
convertOpenAIResponseToGemini(data) ==
  LET content == IF data.tag = "choice" /\ data.hasContent THEN data.content ELSE <<>>
  IN  [made |-> TRUE, text |-> content, partsText |-> content, role |-> "model",
       finishKind |-> IF data.tag = "choice" THEN data.finishKind ELSE "absent",
       finishReason |-> IF data.tag = "choice" THEN data.finish ELSE <<>>]

(***************************************************************************)
(* Inputs.                                                                 *)
(***************************************************************************)
Roles == {"user", "model", "", "system"}

PartsKit == {<<>>, <<TextPart(Hi)>>, <<TextPart(Hi), NonTextPart, TextPart(Ok)>>,
             <<TextPart(<<>>)>>}
TurnKit == [role : Roles, parts : PartsKit]

ContentsKit ==
  {[type |-> "string", str |-> Hi, turns |-> <<>>], NoContents}
  \cup {[type |-> "array", str |-> <<>>, turns |-> ts] :
          ts \in UNION {[1..n -> TurnKit] : n \in 0..MaxTurns}}

\* 'HelloWorld'
TenChars == <<72, 101, 108, 108, 111, 87, 111, 114, 108, 100>>

\* The contents countTokens is given: those above and a string of ten
\* characters.
CountKit == ContentsKit \cup {[type |-> "string", str |-> TenChars, turns |-> <<>>]}

\* The requests of the runs that follow a call through its response.
RequestKit ==
  {[type |-> "string", str |-> Hi, turns |-> <<>>],
   [type |-> "array", str |-> <<>>,
    turns |-> <<[role |-> "user", parts |-> <<TextPart(Hi)>>],
                [role |-> "model", parts |-> <<TextPart(Ok), NonTextPart>>]>>]}

\* The lines a server sends.
LineHi == DataPrefix \o ContentOpen \o Hi \o CloseNoFinish
\* content "é" (bytes C3 A9) with finish_reason "stop"
LineAccent == DataPrefix \o ContentOpen \o <<195, 169>> \o FinishOpen \o Stop \o FinishClose
LineFinishOnly == DataPrefix \o EmptyDeltaOpen \o <<44>> \o Slice(FinishOpen, 3) \o Stop \o FinishClose
\* 'data: {"choices":[{"delta":{}}]}'
LineEmptyDelta == DataPrefix \o EmptyDeltaOpen \o Slice(CloseNoFinish, 2)
LineBad == DataPrefix \o NotJson
LineError == DataPrefix \o ErrorObject
\* ' data: [DONE]' and a carriage return (a CRLF line ending)
LineDoneCR == <<32>> \o DoneFrame \o <<13>>
\* ': ping'
LineComment == <<58, 32, 112, 105, 110, 103>>

\* The lines of the bodies served: a frame with content, the sentinel, a
\* malformed frame, a frame with a two-byte character and a finish reason, a
\* frame without content, a comment, an empty line.
Kit == <<LineHi, DoneFrame, LineBad, LineAccent, LineEmptyDelta, LineComment, <<>> >>

RECURSIVE Wire(_, _)
\* The lines, each ended by a newline; the last one only if `closed`.
Wire(ls, closed) ==
  IF ls = <<>> THEN <<>>
  ELSE IF Len(ls) = 1 THEN Kit[ls[1]] \o (IF closed THEN <<Newline>> ELSE <<>>)
  ELSE Kit[Head(ls)] \o <<Newline>> \o Wire(Tail(ls), closed)

Wires ==
  {Wire(ls, closed) :
     ls \in UNION {[1..n -> 1..Len(Kit)] : n \in 0..MaxLines}, closed \in BOOLEAN}

\* 'data: {"choices":[{"delta":{"content":"Hi"},"finish_reason":null}]}'
LineHiNullFinish == DataPrefix \o ContentOpen \o Hi \o CloseNullFinish
\* 'data: null'
LineNull == DataPrefix \o NullText
\* 'data: {"choices":[]}'
LineEmptyChoices == DataPrefix \o EmptyChoices

\* Frames with and without content and finish reason, and frames whose JSON
\* document has no first choice: content only, content and finish reason,
\* finish reason only, content and a null finish reason, an error object,
\* null, an empty choices list.
FrameKit ==
  <<LineHi, LineAccent, LineFinishOnly, LineHiNullFinish, LineError, LineNull,
    LineEmptyChoices>>

RECURSIVE WireOf(_, _, _)
\* The lines ls of `kit`, each ended by a newline; the last one only if
\* `closed`.
WireOf(kit, ls, closed) ==
  IF ls = <<>> THEN <<>>
  ELSE IF Len(ls) = 1 THEN kit[ls[1]] \o (IF closed THEN <<Newline>> ELSE <<>>)
  ELSE kit[Head(ls)] \o <<Newline>> \o WireOf(kit, Tail(ls), closed)

\* The bodies served to two calls at once: the frame with the two-byte
\* character, a frame and the sentinel, a frame that is never terminated.
TwoWires == {Wire(<<4>>, TRUE), Wire(<<1, 2>>, TRUE), Wire(<<1>>, FALSE)}

FrameWires ==
  {WireOf(FrameKit, ls, closed) :
     ls \in UNION {[1..n -> 1..Len(FrameKit)] : n \in 0..MaxLines}, closed \in BOOLEAN}

\* The sizes of the chunks a transport that cuts coarsely delivers: all that
\* is left, half of it, or up to and including the lead byte of the next
\* two-byte character.
CutSizes(k) ==
  LET rest == SubSeq(k.wire, k.pos + 1, Len(k.wire))
  IN  {Len(rest), Len(rest) \div 2}
        \cup {i \in 1..Len(rest) : IsLead(rest[i]) /\ \A j \in 1..(i - 1) : ~IsLead(rest[j])}

\* What response.json() gives for the one-shot call's body.
DataKit ==
  {JsonValue("null"), JsonValue("nochoices"), JsonValue("emptychoices"),
   Choice(TRUE, Ok, "string", Stop), Choice(TRUE, Hi, "null", <<>>),
   Choice(FALSE, <<>>, "absent", <<>>), Choice(TRUE, <<>>, "string", Stop)}

\* HTTP responses: status, statusText, the body as text().
ErrorResponses ==
  {[status |-> 401, statusText |-> "Unauthorized", text |-> "denied"],
   [status |-> 500, statusText |-> "Internal Server Error", text |-> ""]}

\* response.ok
IsOk(status) == status >= 200 /\ status <= 299

(***************************************************************************)
(* State.                                                                  *)
(*   self       the generator's fields (apiKey, baseUrl, model)            *)
(*   transport  the number of fetch invocations made so far                *)
(*   call       per call of a public operation, its activation             *)
(***************************************************************************)
VARIABLES self, transport, call

vars == <<self, transport, call>>

NoError == [kind |-> "none", status |-> 0, statusText |-> "", text |-> ""]

Error(kind) == [NoError EXCEPT !.kind = kind]

\* new Error(`OpenRouter API Error: ${status} ${statusText} - ${errorText}`)
HttpError(resp) ==
  [kind |-> "http", status |-> resp.status, statusText |-> resp.statusText,
   text |-> resp.text]

\* An activation before its operation is called.
Fresh ==
  [op |-> "none", pc |-> "idle",
   contents |-> NoContents, body |-> NoBody,     \* live while the fetch is pending
   fetches |-> 0, error |-> NoError,
   data |-> NoData,                              \* what response.json() gave
   result |-> NoResult,                          \* generateContent's return value
   totalTokens |-> 0,                            \* countTokens' return value
   reader |-> "none", releases |-> 0,            \* response.body.getReader()
   wire |-> <<>>, pos |-> 0,                     \* the body's bytes, those read
   pending |-> 0, buffer |-> <<>>, lines |-> <<>>,
   out |-> <<>>,                                 \* the values yielded so far
   status |-> 0, hasBody |-> FALSE,              \* the response, once it is in
   split |-> FALSE,              \* a read has ended inside a multi-byte character
   term |-> "none",                              \* how the generator ended
   consumer |-> "active", last |-> "none"]       \* the consumer, its last answer

\* The constructor (the environment sets neither base URL nor model).
Constructed ==
  [apiKey |-> "key", baseUrl |-> "https://openrouter.ai/api/v1",
   model |-> "google/gemini-2.0-flash-001"]

Init ==
  /\ self = Constructed
  /\ transport = 0
  /\ call = [c \in {1} |-> Fresh]

Set(c, k) == call' = [call EXCEPT ![c] = k]

(***************************************************************************)
(* generateContent                                                         *)
(***************************************************************************)
\* The number of fetch invocations after one more.
Fetched(n) == n + 1

\* Lines 39-67: build the body and call fetch.
CallGenerate(c, contents) ==
  /\ call[c].op = "none"
  /\ Set(c, [call[c] EXCEPT !.op = "generate", !.pc = "fetching",
                            !.contents = contents,
                            !.body = RequestBody(self.model, contents, FALSE),
                            !.fetches = Fetched(@)])
  /\ transport' = Fetched(transport)
  /\ UNCHANGED self

OkResponse == [status |-> 200, statusText |-> "OK", text |-> ""]

\* A failed call is made once more.
GenerateOutcomeRetry(k, resp, data) ==
  IF ~IsOk(resp.status) /\ k.fetches < 2
  THEN [k EXCEPT !.pc = "fetching", !.fetches = @ + 1]
  ELSE [k EXCEPT !.pc = "threw", !.error = HttpError(resp)]

\* What the one-shot call does with an HTTP response (lines 69-77); data is
\* what response.json() gives, SyntaxError when the body is no JSON document.
GenerateOutcome(k, resp, data) ==
  IF ~IsOk(resp.status)
  THEN [k EXCEPT !.pc = "threw", !.error = HttpError(resp)]
  ELSE IF data.tag = "syntax"
  THEN [k EXCEPT !.pc = "threw", !.error = Error("json")]
  ELSE IF ResponseThrows(data)
  THEN [k EXCEPT !.pc = "threw", !.error = Error("type")]
  ELSE [k EXCEPT !.pc = "returned", !.result = convertOpenAIResponseToGemini(data)]

GenerateResponds(c) ==
  /\ call[c].op = "generate" /\ call[c].pc = "fetching"
  /\ \E resp \in ErrorResponses \cup {OkResponse} :
       \E data \in IF IsOk(resp.status) THEN DataKit \cup {SyntaxError} ELSE {SyntaxError} :
         Set(c, GenerateOutcome([call[c] EXCEPT !.contents = NoContents, !.body = NoBody,
                                                !.status = resp.status, !.hasBody = TRUE,
                                                !.data = IF IsOk(resp.status) THEN data
                                                         ELSE NoData],
                                resp, data))
  /\ UNCHANGED <<self, transport>>

\* fetch rejects (the network fails): the rejection propagates.
FetchRejects(c) ==
  /\ call[c].pc = "fetching"
  /\ Set(c, [call[c] EXCEPT !.pc = "threw", !.error = Error("network"),
                            !.contents = NoContents, !.body = NoBody])
  /\ UNCHANGED <<self, transport>>

(***************************************************************************)
(* embedContent                                                            *)
(***************************************************************************)
\* throw new Error('Embed content not supported via OpenRouter yet.')
EmbedOutcome(k) == [k EXCEPT !.op = "embed", !.pc = "threw", !.error = Error("unsupported")]

\* embedContent asks the network first.
EmbedTransportFetch(n) == n + 1

\* The fetch invocations embedContent makes.
EmbedTransport(n) == n

EmbedContent(c, contents) ==
  /\ call[c].op = "none"
  /\ Set(c, [EmbedOutcome(call[c]) EXCEPT !.fetches = EmbedTransport(@)])
  /\ transport' = EmbedTransport(transport)
  /\ UNCHANGED self

(***************************************************************************)
(* countTokens                                                             *)
(***************************************************************************)
\* Math.floor in place of Math.ceil.
FloorQuarter(length) == length \div 4

\* Math.ceil(length / 4)
CeilQuarter(length) == IF length % 4 = 0 THEN length \div 4 ELSE length \div 4 + 1

RECURSIVE CountedParts(_)
\* parts.map(p => 'text' in p ? p.text : '').filter(Boolean)
CountedParts(parts) ==
  IF parts = <<>> THEN <<>>
  ELSE LET t == IF Head(parts).hasText THEN Head(parts).text ELSE <<>>
       IN  IF t # <<>> THEN <<t>> \o CountedParts(Tail(parts))
           ELSE CountedParts(Tail(parts))

\* Lines 179-192: the string itself, the texts of every Turn joined, or ''
\* for contents that are neither a string nor an array.
CountedText(contents) ==
  IF contents.type = "string" THEN contents.str
  ELSE IF contents.type = "array"
  THEN Join([i \in 1..Len(contents.turns) |-> Join(CountedParts(contents.turns[i].parts))])
  ELSE <<>>

\* The whole operation: it has no await before its return.
CountTokens(c, contents) ==
  /\ call[c].op = "none"
  /\ Set(c, [call[c] EXCEPT !.op = "count", !.pc = "returned", !.contents = contents,
                            !.totalTokens = CeilQuarter(Len(CountedText(contents)))])
  /\ UNCHANGED <<self, transport>>

(***************************************************************************)
(* generateContentStream: the call (lines 85-126)                          *)
(***************************************************************************)
CallStream(c, contents) ==
  /\ call[c].op = "none"
  /\ Set(c, [call[c] EXCEPT !.op = "stream", !.pc = "fetching",
                            !.contents = contents,
                            !.body = RequestBody(self.model, contents, TRUE),
                            !.fetches = Fetched(@)])
  /\ transport' = Fetched(transport)
  /\ UNCHANGED self

\* The body test left out.
BodyMissingNever(hasBody) == FALSE

\* if (!response.body) throw new Error('No response body')
BodyMissing(hasBody) == ~hasBody

\* The generator starts to read as soon as it is created.
StreamOutcomeEager(k, resp, hasBody, wire) ==
  IF ~IsOk(resp.status)
  THEN [k EXCEPT !.pc = "threw", !.error = [kind |-> "http", status |-> resp.status,
                                            statusText |-> resp.statusText,
                                            text |-> resp.text]]
  ELSE IF ~hasBody
  THEN [k EXCEPT !.pc = "threw", !.error = Error("nobody")]
  ELSE [k EXCEPT !.pc = "awaitingRead", !.reader = "locked", !.wire = wire]

\* Lines 116-128: the status and body checks, getReader(), and the generator
\* object, which is returned without any of its body having run.
StreamOutcome(k, resp, hasBody, wire) ==
  IF ~IsOk(resp.status)
  THEN [k EXCEPT !.pc = "threw", !.error = HttpError(resp)]
  ELSE IF BodyMissing(hasBody)
  THEN [k EXCEPT !.pc = "threw", !.error = Error("nobody")]
  ELSE [k EXCEPT !.pc = "suspendedStart", !.reader = "locked", !.wire = wire]

\* The fetch resolves; a body delivers one of `wires`.
StreamResponds(c, wires) ==
  /\ call[c].op = "stream" /\ call[c].pc = "fetching"
  /\ \E resp \in ErrorResponses \cup {OkResponse}, hasBody \in BOOLEAN :
       \E wire \in IF IsOk(resp.status) /\ hasBody THEN wires ELSE {<<>>} :
         Set(c, StreamOutcome([call[c] EXCEPT !.contents = NoContents, !.body = NoBody,
                                              !.status = resp.status,
                                              !.hasBody = hasBody],
                              resp, hasBody, wire))
  /\ UNCHANGED <<self, transport>>

(***************************************************************************)
(* generateContentStream: the generator (lines 128-172)                    *)
(***************************************************************************)
\* finally { reader.releaseLock(); }
Finally(k) == [k EXCEPT !.reader = "released", !.releases = @ + 1]

\* The generator ends: the finally block runs and the pending request is
\* answered.
Complete(k, term, last) ==
  Finally([k EXCEPT !.pc = "completed", !.lines = <<>>, !.term = term, !.last = last])

\* The for loop over `lines`, as far as it runs without suspending: to a
\* yield, to the return, or through the last line and on to reader.read().
Continue(k, lines) ==
  LET r == RunLines(lines)
  IN  CASE r.kind = "yield" ->
             [k EXCEPT !.pc = "suspendedYield", !.lines = r.rest,
                       !.out = Append(@, r.value), !.last = "value"]
        [] r.kind = "return" -> Complete(k, "done", "done")
        [] r.kind = "throw" ->
             Complete([k EXCEPT !.error = Error("frame")], "threw", "error")
        [] OTHER -> [k EXCEPT !.pc = "awaitingRead", !.lines = <<>>]

\* Lines 135-137 for a chunk of bytes.
TakeChunk(k, value) ==
  LET d == Decode(k.pending, value)
      lines == Split(k.buffer \o d.text)
  IN  Continue([k EXCEPT !.pos = @ + Len(value), !.pending = d.pending,
                         !.buffer = PopBuffer(lines),
                         !.split = @ \/ d.pending # 0],
               Popped(lines))

\* next(): the consumer asks for a value.  A generator that has not started
\* enters the try block and runs to its first reader.read(); one suspended at
\* the yield goes on with the for loop.
Pull(c) ==
  /\ call[c].consumer # "abandoned"
  /\ \/ /\ call[c].pc = "suspendedStart"
        /\ Set(c, [call[c] EXCEPT !.pc = "awaitingRead"])
     \/ /\ call[c].pc = "suspendedYield"
        /\ Set(c, Continue(call[c], call[c].lines))
  /\ UNCHANGED <<self, transport>>

\* One decoder and one buffer for the whole instance: every call uses those
\* of the first.
ScopeShared(c) == CHOOSE x \in DOMAIN call : \A y \in DOMAIN call : x <= y

\* Lines 126 and 129: `decoder` and `buffer` are locals of the call, so the
\* activation whose decoder and buffer call c works on is its own.
Scope(c) == c

\* reader.read() resolves with the next n bytes of the body.
ReadChunk(c, n) ==
  /\ call[c].pc = "awaitingRead"
  /\ n \in 0..(Len(call[c].wire) - call[c].pos)
  /\ LET s == Scope(c)
         k == TakeChunk([call[c] EXCEPT !.pending = call[s].pending,
                                        !.buffer = call[s].buffer],
                        SubSeq(call[c].wire, call[c].pos + 1, call[c].pos + n))
     IN  call' = [x \in DOMAIN call |->
                    IF x = c THEN k
                    ELSE IF x = s
                    THEN [call[x] EXCEPT !.pending = k.pending, !.buffer = k.buffer]
                    ELSE call[x]]
  /\ UNCHANGED <<self, transport>>

\* At done the retained buffer is dealt with as one more line before the
\* generator ends.
ReadDoneFlushing(c) ==
  /\ call[c].pc = "awaitingRead"
  /\ call[c].pos = Len(call[c].wire)
  /\ LET k == Continue([call[c] EXCEPT !.buffer = <<>>], <<call[c].buffer>>)
     IN  Set(c, IF k.pc = "awaitingRead" THEN Complete(k, "eof", "done") ELSE k)
  /\ UNCHANGED <<self, transport>>

\* The done flag is not looked at: the loop decodes nothing and reads again,
\* to be told done again.
ReadDoneIgnored(c) ==
  /\ call[c].pc = "awaitingRead"
  /\ call[c].pos = Len(call[c].wire)
  /\ UNCHANGED vars

\* reader.read() resolves with done: the body has been read to its end.
ReadDone(c) ==
  /\ call[c].pc = "awaitingRead"
  /\ call[c].pos = Len(call[c].wire)
  /\ Set(c, Complete(call[c], "eof", "done"))
  /\ UNCHANGED <<self, transport>>

\* The rejection is dropped as a frame's parse error is: the generator ends
\* as at the end of the body.
ReadFailsSwallowed(c) ==
  /\ call[c].pc = "awaitingRead"
  /\ Set(c, Complete(call[c], "readerror", "done"))
  /\ UNCHANGED <<self, transport>>

\* reader.read() rejects: the error leaves the generator through finally.
ReadFails(c) ==
  /\ call[c].pc = "awaitingRead"
  /\ Set(c, Complete([call[c] EXCEPT !.error = Error("read")], "readerror", "error"))
  /\ UNCHANGED <<self, transport>>

\* return() on a generator suspended at the yield: the return completion runs
\* the finally block.
ReturnAtYield(k) == Complete([k EXCEPT !.consumer = "closed"], "return", "done")

\* return() on a generator that has not started: it completes without any of
\* its body running, so the try statement is never entered.
ReturnAtStart(k) ==
  [k EXCEPT !.pc = "completed", !.term = "return", !.last = "done", !.consumer = "closed"]

\* return(): the consumer closes the sequence (a break out of for await).
Return(c) ==
  /\ call[c].consumer = "active"
  /\ \/ /\ call[c].pc = "suspendedStart"
        /\ Set(c, ReturnAtStart(call[c]))
     \/ /\ call[c].pc = "suspendedYield"
        /\ Set(c, ReturnAtYield(call[c]))
  /\ UNCHANGED <<self, transport>>

\* The consumer drops the generator without closing it.
Abandon(c) ==
  /\ call[c].consumer = "active"
  /\ call[c].pc \in {"suspendedStart", "suspendedYield"}
  /\ Set(c, [call[c] EXCEPT !.consumer = "abandoned"])
  /\ UNCHANGED <<self, transport>>

\* A generator that has ended starts over on the next pull.
PullCompletedRestarts(c) ==
  /\ call[c].consumer # "abandoned"
  /\ call[c].pc = "completed"
  /\ Set(c, [call[c] EXCEPT !.pc = "awaitingRead", !.pos = 0, !.last = "none"])
  /\ UNCHANGED <<self, transport>>

\* next() or return() on a generator that has ended: { done: true }.
PullCompleted(c) ==
  /\ call[c].consumer # "abandoned"
  /\ call[c].pc = "completed"
  /\ Set(c, [call[c] EXCEPT !.last = "done"])
  /\ UNCHANGED <<self, transport>>

Calls == DOMAIN call

DoCallGenerate == \E c \in Calls, contents \in RequestKit : CallGenerate(c, contents)
DoGenerateResponds == \E c \in Calls : GenerateResponds(c)
DoFetchRejects == \E c \in Calls : FetchRejects(c)
DoEmbedContent == \E c \in Calls, contents \in RequestKit : EmbedContent(c, contents)
DoCountTokens == \E c \in Calls, contents \in RequestKit : CountTokens(c, contents)
DoCallStream == \E c \in Calls, contents \in RequestKit : CallStream(c, contents)
DoStreamResponds == \E c \in Calls : StreamResponds(c, Wires)
DoPull == \E c \in Calls : Pull(c)
DoReadChunk == \E c \in Calls : \E n \in 0..(Len(call[c].wire) - call[c].pos) : ReadChunk(c, n)
DoReadDone == \E c \in Calls : ReadDone(c)
DoReadFails == \E c \in Calls : ReadFails(c)
DoReturn == \E c \in Calls : Return(c)
DoAbandon == \E c \in Calls : Abandon(c)
DoPullCompleted == \E c \in Calls : PullCompleted(c)

Next ==
  \/ DoCallGenerate
  \/ DoGenerateResponds
  \/ DoFetchRejects
  \/ DoEmbedContent
  \/ DoCountTokens
  \/ DoCallStream
  \/ DoStreamResponds
  \/ DoPull
  \/ DoReadChunk
  \/ DoReadDone
  \/ DoReadFails
  \/ DoReturn
  \/ DoAbandon
  \/ DoPullCompleted

Spec == Init /\ [][Next]_vars

(***************************************************************************)
(* The request translation on every content value of ContentsKit: the      *)
(* calls up to their fetch.                                                *)
(***************************************************************************)
TranslateGenerate == \E c \in Calls, contents \in ContentsKit : CallGenerate(c, contents)
TranslateStream == \E c \in Calls, contents \in ContentsKit : CallStream(c, contents)

NextTranslate == TranslateGenerate \/ TranslateStream

SpecTranslate == Init /\ [][NextTranslate]_vars

(***************************************************************************)
(* countTokens on every content value of CountKit.                         *)
(***************************************************************************)
CountEach == \E c \in Calls, contents \in CountKit : CountTokens(c, contents)

NextCount == CountEach

SpecCount == Init /\ [][NextCount]_vars

(***************************************************************************)
(* Two generateContentStream calls on the same instance, their pulls and   *)
(* reads interleaved at will.                                              *)
(***************************************************************************)
InitTwo ==
  /\ self = Constructed
  /\ transport = 0
  /\ call = [c \in {1, 2} |-> Fresh]

TwoCallStream ==
  \E c \in Calls : CallStream(c, [type |-> "string", str |-> Hi, turns |-> <<>>])
TwoRespond == \E c \in Calls : StreamResponds(c, TwoWires)
ReadSome == \E c \in Calls : \E n \in CutSizes(call[c]) : ReadChunk(c, n)

NextTwo ==
  \/ TwoCallStream
  \/ TwoRespond
  \/ DoPull
  \/ ReadSome
  \/ DoReadDone
  \/ DoReturn
  \/ DoPullCompleted

SpecTwo == InitTwo /\ [][NextTwo]_vars

(***************************************************************************)
(* The decoder on the frames of FrameKit, read in coarse chunks.           *)
(***************************************************************************)
FramesRespond == \E c \in Calls : StreamResponds(c, FrameWires)

NextFrames ==
  \/ DoCallStream
  \/ FramesRespond
  \/ DoPull
  \/ ReadSome
  \/ DoReadDone
  \/ DoPullCompleted

SpecFrames == Init /\ [][NextFrames]_vars

(***************************************************************************)
(* A consumer that keeps pulling from a body that arrives in finitely many *)
(* chunks and then ends.  The consumer's next pull (a for await loop), the *)
(* arrival of the bytes not yet delivered and the report of the end are    *)
(* what the claim supposes; they are weakly fair.  No read fails and the   *)
(* consumer does not stop.                                                 *)
(***************************************************************************)
\* Bytes of a body are still to be delivered to a pending read: the states
\* in which a step of ReadSome that changes the state is possible (an empty
\* chunk changes nothing).
ReadPending ==
  \E c \in {1} : call[c].pc = "awaitingRead" /\ call[c].pos < Len(call[c].wire)

\* WF_vars(ReadSome), with ENABLED <<ReadSome>>_vars written out as
\* ReadPending.
ReadFair == []<>~ReadPending \/ []<><<ReadSome>>_vars

NextLive ==
  \/ DoCallStream
  \/ DoStreamResponds
  \/ DoPull
  \/ ReadSome
  \/ DoReadDone
  \/ DoPullCompleted

SpecLive ==
  /\ Init
  /\ [][NextLive]_vars
  /\ WF_vars(DoPull)
  /\ ReadFair
  /\ WF_vars(DoReadDone)

(***************************************************************************)
(* What the claims speak of.                                               *)
(***************************************************************************)
GeneratorStates == {"suspendedStart", "awaitingRead", "suspendedYield", "completed"}

\* The activations that hold a generator returned by generateContentStream.
Generators == {c \in Calls : call[c].op = "stream" /\ call[c].pc \in GeneratorStates}

Texts(out) == [i \in 1..Len(out) |-> out[i].text]

\* The newline-terminated lines of a text.
CompleteLines(text) == LET ls == Split(text) IN SubSeq(ls, 1, Len(ls) - 1)

\* The text of all the bytes read so far, and of the whole body.
ReadText(k) == Decode(0, SubSeq(k.wire, 1, k.pos)).text
WholeText(k) == Decode(0, k.wire).text

\* The lines the for loop has dealt with, in a generator that has not ended.
Processed(k) ==
  LET ls == CompleteLines(ReadText(k)) IN SubSeq(ls, 1, Len(ls) - Len(k.lines))

IsSentinel(line) == Trim(line) = DoneFrame
IsFrame(line) == StartsWith(Trim(line), DataPrefix) /\ ~IsSentinel(line)
Payload(line) == Slice(Trim(line), Len(DataPrefix))
Malformed(line) == IsFrame(line) /\ JsonParse(Payload(line)).tag = "syntax"
HasText(line) ==
  /\ IsFrame(line)
  /\ LET d == JsonParse(Payload(line))
     IN  d.tag = "choice" /\ d.hasContent /\ d.content # <<>>

RECURSIVE ExpectedTexts(_)
\* The delta contents of the lines that carry one, in order.
ExpectedTexts(lines) ==
  IF lines = <<>> THEN <<>>
  ELSE IF HasText(Head(lines))
       THEN <<JsonParse(Payload(Head(lines))).content>> \o ExpectedTexts(Tail(lines))
       ELSE ExpectedTexts(Tail(lines))

HasSentinel(lines) == \E i \in 1..Len(lines) : IsSentinel(lines[i])

\* The lines before the first sentinel line (all of them when there is none).
BeforeSentinel(lines) ==
  IF HasSentinel(lines)
  THEN SubSeq(lines, 1, (CHOOSE i \in 1..Len(lines) :
                           IsSentinel(lines[i]) /\ \A j \in 1..(i - 1) : ~IsSentinel(lines[j])) - 1)
  ELSE lines

RECURSIVE Drain(_)
\* The consumer pulls until the generator asks for bytes or ends.
Drain(k) == IF k.pc = "suspendedYield" THEN Drain(Continue(k, k.lines)) ELSE k

\* All the bytes of `wire` arrive in a single read, and then the end.
SingleRead(wire) ==
  LET k == Drain(TakeChunk([Fresh EXCEPT !.op = "stream", !.pc = "awaitingRead",
                                         !.reader = "locked", !.wire = wire],
                           wire))
  IN  IF k.pc = "awaitingRead" THEN Complete(k, "eof", "done") ELSE k

IsPrefix(a, b) == Len(a) <= Len(b) /\ SubSeq(b, 1, Len(a)) = a

(***************************************************************************)
(* C1: however the bytes of the body are cut into reads, the generator     *)
(* yields the values it yields when all bytes arrive in a single read:     *)
(* whenever it yields, the values yielded so far are a prefix of the       *)
(* single-read sequence, and a generator that has run to its end (end of   *)
(* stream or 'data: [DONE]') has yielded all of it and ended the same way. *)
(***************************************************************************)
C1_ChunkIndependence ==
  \A c \in Generators :
    LET k == call[c]
        one == SingleRead(k.wire)
    IN  /\ k.pc = "suspendedYield" => IsPrefix(k.out, one.out)
        /\ k.term \in {"eof", "done"} =>
             k.out = one.out /\ k.term = one.term /\ k.error = one.error

\* A body with a two-byte character was cut inside it, and the generator ran
\* to the end having yielded that character.
C1_Witness ==
  \E c \in Generators :
    /\ call[c].split
    /\ call[c].term = "eof"
    /\ \E i \in 1..Len(call[c].out) : call[c].out[i].text = <<233>>

(***************************************************************************)
(* C2: a reader that has been acquired is released exactly once on every   *)
(* way out of the generator: it is never released twice, and a generator   *)
(* that has ended has released it.                                         *)
(***************************************************************************)
C2_ReleasedExactlyOnce ==
  \A c \in Generators :
    /\ call[c].releases <= 1
    /\ call[c].pc = "completed" => call[c].releases = 1 /\ call[c].reader = "released"

(***************************************************************************)
(* C3: when the consumer has closed the sequence before its end, after any *)
(* number of pulls (none included), the reader has been released.          *)
(***************************************************************************)
C3_ReleasedOnConsumerStop ==
  \A c \in Generators :
    call[c].consumer = "closed" => call[c].reader = "released"

(***************************************************************************)
(* C4: a complete line that trims to 'data: [DONE]' ends the sequence at   *)
(* once and without error: a generator that is still alive has met no such *)
(* line; one ended by it has yielded the frames before the first such line *)
(* and no other; and from then on nothing is yielded and no byte is read.  *)
(***************************************************************************)
C4_EndedBySentinel(k) ==
  /\ k.pc = "completed" /\ k.error = NoError /\ k.last = "done"
  /\ HasSentinel(CompleteLines(ReadText(k)))
  /\ Texts(k.out) = ExpectedTexts(BeforeSentinel(CompleteLines(WholeText(k))))

C4_SentinelState ==
  \A c \in Generators :
    /\ call[c].pc # "completed" => ~HasSentinel(Processed(call[c]))
    /\ call[c].term = "done" => C4_EndedBySentinel(call[c])

C4_SentinelStep ==
  \A c \in Generators :
    call[c].term = "done" =>
      /\ call'[c].pc = "completed" /\ call'[c].term = "done"
      /\ call'[c].out = call[c].out
      /\ call'[c].pos = call[c].pos

C4_DoneEndsSequence == []C4_SentinelState /\ [][C4_SentinelStep]_vars

\* The sentinel was met with a frame after it, in bytes already read and in
\* bytes never read.
C4_Witness ==
  \E c \in Generators :
    /\ call[c].term = "done"
    /\ call[c].wire = Wire(<<2, 1>>, TRUE)
    /\ call[c].pos > Len(DoneFrame) + 1
    /\ call[c].pos < Len(call[c].wire)

(***************************************************************************)
(* C5: a complete 'data: ' line whose payload is not JSON is skipped.  No  *)
(* generator ever ends on, or reports, an error of a frame; and once such  *)
(* a line has been dealt with, the generator is where it would be without  *)
(* it: the values yielded are those of the valid frames dealt with (those  *)
(* after the malformed line included), the buffer is the unterminated rest *)
(* of the text read, and a run to the end of the stream has yielded every  *)
(* valid frame of the body.                                                *)
(***************************************************************************)
AnyMalformed(lines) == \E i \in 1..Len(lines) : Malformed(lines[i])

C5_MalformedSkipped ==
  \A c \in Generators :
    LET k == call[c]
        done == Processed(k)
        all == CompleteLines(WholeText(k))
    IN  /\ k.term # "threw" /\ k.error.kind # "frame"
        /\ (k.pc # "completed" /\ AnyMalformed(done)) =>
             /\ k.error = NoError
             /\ Texts(k.out) = ExpectedTexts(done)
             /\ k.buffer = Last(Split(ReadText(k)))
        /\ (k.term = "eof" /\ AnyMalformed(all)) =>
             /\ k.error = NoError
             /\ Texts(k.out) = ExpectedTexts(all)

\* 'data: not-json' and then a valid frame: the frame was yielded and the
\* stream read to its end.
C5_Witness ==
  \E c \in Generators :
    /\ call[c].wire = Wire(<<3, 1>>, TRUE)
    /\ call[c].term = "eof"
    /\ Texts(call[c].out) = <<Hi>>

(***************************************************************************)
(* C6: the values yielded are, in stream order, one per complete line that *)
(* trims to 'data: ' followed by a JSON document with a non-empty first    *)
(* choice delta content, carrying that content; no other line yields.  So  *)
(* long as the generator is alive this holds of the lines dealt with, and  *)
(* at its end (end of stream or sentinel) of the lines before the          *)
(* sentinel.  The frame with content "Hi" followed by 'data: [DONE]'       *)
(* yields exactly "Hi" and ends without error.                             *)
(***************************************************************************)
C6_Example == Wire(<<1, 2>>, TRUE)

C6_OnePerContentFrame ==
  \A c \in Generators :
    LET k == call[c] IN
    /\ Len(k.out) > 0 => \A i \in 1..Len(k.out) :
         k.out[i].text # <<>> /\ k.out[i].partsText = k.out[i].text /\ k.out[i].role = "model"
    /\ k.pc # "completed" => Texts(k.out) = ExpectedTexts(Processed(k))
    /\ k.term \in {"eof", "done"} =>
         /\ Texts(k.out) = ExpectedTexts(BeforeSentinel(CompleteLines(WholeText(k))))
         /\ k.error = NoError
    /\ (k.wire = C6_Example /\ k.term \in {"eof", "done"}) =>
         Texts(k.out) = <<Hi>> /\ k.term = "done" /\ k.last = "done"

\* The example of the specification, run to its end.
C6_Witness ==
  \E c \in Generators :
    /\ call[c].wire = C6_Example
    /\ call[c].term = "done"
    /\ Len(call[c].out) = 1

(***************************************************************************)
(* C7 as claimed: one message per Turn, in order, with role 'assistant'    *)
(* exactly for the source role 'model' and 'user' for every other or       *)
(* absent role.                                                            *)
(***************************************************************************)
Translating == {c \in Calls : call[c].pc = "fetching" /\ call[c].contents.type = "array"}

C7_RolesUserOrAssistant ==
  \A c \in Translating :
    LET turns == call[c].contents.turns
        messages == call[c].body.messages
    IN  /\ Len(messages) = Len(turns)
        /\ \A i \in 1..Len(turns) :
             /\ messages[i].role = "assistant" <=> turns[i].role = "model"
             /\ turns[i].role # "model" => messages[i].role = "user"

IsText(part) == part.hasText /\ part.text # <<>>

(***************************************************************************)
(* C7 as amended: one message per Turn, in order (message i has the role   *)
(* and the text parts of Turn i); the role is 'assistant' for the source   *)
(* role 'model', 'user' for the source role 'user' or an absent role, and  *)
(* any other source role unchanged.                                        *)
(***************************************************************************)
C7_RolesPassThrough ==
  \A c \in Translating :
    LET turns == call[c].contents.turns
        messages == call[c].body.messages
    IN  /\ Len(messages) = Len(turns)
        /\ \A i \in 1..Len(turns) :
             /\ turns[i].role = "model" => messages[i].role = "assistant"
             /\ turns[i].role \in {"user", ""} => messages[i].role = "user"
             /\ turns[i].role \notin {"model", "user", ""} =>
                  messages[i].role = turns[i].role
             /\ LET texts == SelectSeq(turns[i].parts, IsText)
                IN  messages[i].content = Join([j \in 1..Len(texts) |-> texts[j].text])

\* Two Turns, the first of a role that is neither 'model' nor 'user'.
C7_Witness ==
  \E c \in Translating :
    /\ Len(call[c].contents.turns) = 2
    /\ call[c].contents.turns[1].role = "system"
    /\ call[c].contents.turns[2].role = "model"
    /\ call[c].body.messages[1].role = "system"

(***************************************************************************)
(* C8: generateContentStream acquires the reader and returns a generator   *)
(* only for a successful response with a body.  A non-success status       *)
(* raises an error of the status, the status text and the body text, a     *)
(* success without body raises 'No response body'; in both cases no reader *)
(* is acquired, no byte is read and nothing is yielded.                    *)
(***************************************************************************)
Responded(k) == k.pc \notin {"idle", "fetching"} /\ k.error.kind # "network"

NothingDecoded(k) ==
  k.reader = "none" /\ k.releases = 0 /\ k.pos = 0 /\ k.out = <<>> /\ k.buffer = <<>>

C8_ReaderOnlyOnSuccess ==
  \A c \in Calls :
    LET k == call[c] IN
    k.op = "stream" =>
      /\ (k.pc \in GeneratorStates \/ k.reader # "none") => IsOk(k.status) /\ k.hasBody
      /\ (Responded(k) /\ ~IsOk(k.status)) =>
           /\ k.pc = "threw" /\ NothingDecoded(k)
           /\ \E r \in ErrorResponses :
                /\ r.status = k.status
                /\ k.error = [kind |-> "http", status |-> r.status,
                              statusText |-> r.statusText, text |-> r.text]
      /\ (Responded(k) /\ IsOk(k.status) /\ ~k.hasBody) =>
           k.pc = "threw" /\ k.error.kind = "nobody" /\ NothingDecoded(k)

\* A successful response without a body.
C8_Witness ==
  \E c \in Calls :
    call[c].op = "stream" /\ IsOk(call[c].status) /\ ~call[c].hasBody /\ call[c].pc = "threw"

(***************************************************************************)
(* C9: a generate or generate-streaming call makes at most one transport   *)
(* call.  After a non-success status it has ended in the error, with no    *)
(* second transport call, no translated response and no reader.            *)
(***************************************************************************)
RECURSIVE SumFetches(_)
SumFetches(cs) ==
  IF cs = {} THEN 0
  ELSE LET c == CHOOSE x \in cs : TRUE IN call[c].fetches + SumFetches(cs \ {c})

C9_NoRetry ==
  /\ transport = SumFetches(Calls)
  /\ \A c \in Calls :
       LET k == call[c] IN
       /\ k.fetches <= 1
       /\ (k.op \in {"generate", "stream"}) => k.fetches = 1
       /\ (Responded(k) /\ k.op \in {"generate", "stream"} /\ ~IsOk(k.status)) =>
            /\ k.pc = "threw" /\ k.error.kind = "http"
            /\ k.result = NoResult /\ k.reader = "none"

\* The one-shot call has met a non-success status.
C9_Witness ==
  \E c \in Calls :
    call[c].op = "generate" /\ call[c].error.kind = "http" /\ call[c].fetches = 1

(***************************************************************************)
(* C10: embedContent fails on every call with its error, makes no          *)
(* transport call and changes nothing of the generator.                    *)
(***************************************************************************)
C10_EmbedState ==
  \A c \in Calls :
    call[c].op = "embed" =>
      /\ call[c] = [Fresh EXCEPT !.op = "embed", !.pc = "threw",
                                 !.error = Error("unsupported")]
      /\ self = Constructed

C10_EmbedStep ==
  \A c \in Calls :
    (call[c].op = "none" /\ call'[c].op = "embed") =>
      /\ transport' = transport
      /\ self' = self
      /\ call'[c].fetches = 0
      /\ call'[c].pc = "threw" /\ call'[c].error.kind = "unsupported"

C10_EmbedAlwaysFails == []C10_EmbedState /\ [][C10_EmbedStep]_vars

\* embedContent has been called.
C10_Witness ==
  \E c \in Calls : call[c].op = "embed" /\ call[c].pc = "threw" /\ transport = 0

(***************************************************************************)
(* C11: for every JSON object the one-shot call receives with a success    *)
(* status, convertOpenAIResponseToGemini returns: the text is the first    *)
(* choice's message content, '' when the content, the message, the first   *)
(* choice or the choices field is missing; the one candidate has that text *)
(* and the role 'model'; the finish reason is the first choice's           *)
(* finish_reason as it stands, absent when there is none.                  *)
(***************************************************************************)
IsObject(data) == data.tag \in {"nochoices", "emptychoices", "choice"}

C11_ResponseTranslated ==
  \A c \in Calls :
    LET k == call[c] IN
    (k.op = "generate" /\ IsOk(k.status) /\ IsObject(k.data)) =>
      LET content == IF k.data.tag = "choice" /\ k.data.hasContent
                     THEN k.data.content ELSE <<>>
      IN  /\ k.pc = "returned" /\ k.error = NoError /\ k.result.made
          /\ k.result.text = content
          /\ k.result.partsText = content /\ k.result.role = "model"
          /\ k.result.finishKind =
               (IF k.data.tag = "choice" THEN k.data.finishKind ELSE "absent")
          /\ k.result.finishReason =
               (IF k.data.tag = "choice" THEN k.data.finish ELSE <<>>)

(***************************************************************************)
(* C12: countTokens returns the ceiling of L / 4, L being the length of    *)
(* the string contents or the sum of the lengths of the text parts of all  *)
(* Turns: the least n with 4 n >= L, 3 for L = 10 and 0 for L = 0.  It     *)
(* never fails and makes no transport call.                                *)
(***************************************************************************)
RECURSIVE PartsLength(_)
PartsLength(parts) ==
  IF parts = <<>> THEN 0
  ELSE (IF Head(parts).hasText THEN Len(Head(parts).text) ELSE 0) + PartsLength(Tail(parts))

RECURSIVE TurnsLength(_)
TurnsLength(turns) ==
  IF turns = <<>> THEN 0 ELSE PartsLength(Head(turns).parts) + TurnsLength(Tail(turns))

C12_CeilingOfQuarter ==
  /\ transport = 0
  /\ \A c \in Calls :
       LET k == call[c]
           length == IF k.contents.type = "string" THEN Len(k.contents.str)
                     ELSE TurnsLength(k.contents.turns)
       IN  (k.op = "count" /\ k.contents.type \in {"string", "array"}) =>
             /\ k.pc = "returned" /\ k.error = NoError /\ k.fetches = 0
             /\ 4 * k.totalTokens >= length
             /\ 4 * (k.totalTokens - 1) < length
             /\ length = 10 => k.totalTokens = 3
             /\ length = 0 => k.totalTokens = 0

\* A string of ten characters was counted as three tokens.
C12_Witness ==
  \E c \in Calls :
    /\ call[c].op = "count"
    /\ call[c].contents.str = TenChars
    /\ call[c].totalTokens = 3

(***************************************************************************)
(* C13: two streaming sequences on the same instance share no buffer and   *)
(* no decoder state.  Under every interleaving, each generator's retained  *)
(* buffer and decoder state are those of its own bytes read so far, the    *)
(* values it has yielded are those it yields alone on its own body (all of *)
(* them once it has run to its end), and a step that releases a reader     *)
(* releases the reader of the one call it belongs to and touches no other  *)
(* call.                                                                   *)
(***************************************************************************)
C13_OwnState ==
  \A c \in Generators :
    LET k == call[c]
        alone == SingleRead(k.wire)
        own == Decode(0, SubSeq(k.wire, 1, k.pos))
    IN  /\ k.releases <= 1
        /\ IsPrefix(k.out, alone.out)
        /\ k.pc # "completed" =>
             k.pending = own.pending /\ k.buffer = Last(Split(own.text))
        /\ k.term \in {"eof", "done"} => k.out = alone.out /\ k.term = alone.term

C13_OwnStep ==
  \A c \in Calls :
    call'[c].releases # call[c].releases =>
      /\ call'[c].releases = call[c].releases + 1
      /\ \A d \in Calls \ {c} : call'[d] = call[d]

C13_StreamsIndependent == []C13_OwnState /\ [][C13_OwnStep]_vars

\* Both generators are in the middle of their bodies at once: the first has
\* read half of the two-byte character, the second half of a line.
C13_Witness ==
  /\ call[1].pc = "awaitingRead" /\ call[2].pc = "awaitingRead"
  /\ call[1].pending # 0
  /\ call[2].buffer # <<>> /\ call[2].wire = Wire(<<1, 2>>, TRUE)

(***************************************************************************)
(* C14: when the read reports the end of the body the sequence ends        *)
(* without error and the retained buffer is dropped unprocessed: the step  *)
(* yields nothing and raises nothing, and the values of a generator ended  *)
(* that way are those of the newline-terminated lines alone, whatever the  *)
(* unterminated rest of the body is (a frame with content, the sentinel).  *)
(***************************************************************************)
C14_EndState ==
  \A c \in Generators :
    LET k == call[c] IN
    k.term = "eof" =>
      /\ k.pc = "completed" /\ k.error = NoError /\ k.releases = 1
      /\ k.pos = Len(k.wire)
      /\ k.buffer = Last(Split(WholeText(k)))
      /\ Texts(k.out) = ExpectedTexts(CompleteLines(WholeText(k)))

C14_EndStep ==
  \A c \in Calls :
    (call[c].pc = "awaitingRead" /\ call'[c].term = "eof") =>
      /\ call'[c].out = call[c].out
      /\ call'[c].last = "done"
      /\ call'[c].error = NoError

C14_RemainderDiscarded == []C14_EndState /\ [][C14_EndStep]_vars

\* A terminated frame and then the same frame without its newline: one value.
C14_Witness ==
  \E c \in Generators :
    /\ call[c].wire = Wire(<<1, 1>>, FALSE)
    /\ call[c].term = "eof"
    /\ Texts(call[c].out) = <<Hi>>
    /\ HasText(call[c].buffer)

(***************************************************************************)
(* C15: every value yielded carries the finish reason of the frame its     *)
(* text came from, and none when that frame has none (or null); a frame    *)
(* with a finish reason but without content yields nothing, so no value    *)
(* carries its finish reason.  The values are, in order, one pair of text  *)
(* and finish reason per frame with content.                               *)
(***************************************************************************)
FrameFinish(line) ==
  LET d == JsonParse(Payload(line))
  IN  IF d.finishKind = "string" THEN d.finish ELSE <<>>

RECURSIVE ExpectedFinishes(_)
ExpectedFinishes(lines) ==
  IF lines = <<>> THEN <<>>
  ELSE IF HasText(Head(lines))
       THEN <<FrameFinish(Head(lines))>> \o ExpectedFinishes(Tail(lines))
       ELSE ExpectedFinishes(Tail(lines))

Finishes(out) == [i \in 1..Len(out) |-> out[i].finishReason]

C15_FinishOfOwnFrame ==
  \A c \in Generators :
    LET k == call[c]
        lines == IF k.pc = "completed" THEN CompleteLines(WholeText(k)) ELSE Processed(k)
    IN  (k.pc # "completed" \/ k.term = "eof") =>
          /\ Texts(k.out) = ExpectedTexts(lines)
          /\ Finishes(k.out) = ExpectedFinishes(lines)

\* A frame with content and no finish reason, then a frame with the finish
\* reason 'stop' and no content: one value, without finish reason.
C15_Witness ==
  \E c \in Generators :
    /\ call[c].wire = WireOf(FrameKit, <<1, 3>>, TRUE)
    /\ call[c].term = "eof"
    /\ Len(call[c].out) = 1
    /\ call[c].out[1].finishReason = <<>>

(***************************************************************************)
(* C19: a complete 'data: ' line whose payload is JSON without a first     *)
(* choice (an object without 'choices', null, an empty choices list) is    *)
(* dealt with as a line that is not JSON is: the line yields nothing, no   *)
(* generator ends on it or reports an error, and once such a line has been *)
(* dealt with the values yielded are those of the frames with content      *)
(* dealt with, those after it included.                                    *)
(***************************************************************************)
Unusable(line) ==
  IsFrame(line) /\ JsonParse(Payload(line)).tag \in {"null", "nochoices", "emptychoices"}

AnyUnusable(lines) == \E i \in 1..Len(lines) : Unusable(lines[i])

C19_NoChoicesSkipped ==
  /\ \A i \in 1..Len(FrameKit) :
       Unusable(FrameKit[i]) => ProcessLine(FrameKit[i]) = ProcessLine(LineBad)
  /\ \A c \in Generators :
       LET k == call[c]
           done == Processed(k)
           all == CompleteLines(WholeText(k))
       IN  /\ k.term \notin {"threw", "done"} /\ k.error = NoError
           /\ (k.pc # "completed" /\ AnyUnusable(done)) =>
                Texts(k.out) = ExpectedTexts(done)
           /\ (k.pc = "completed" /\ AnyUnusable(all)) =>
                k.term = "eof" /\ Texts(k.out) = ExpectedTexts(all)

\* An error object and then a frame with content: the frame was yielded and
\* the stream read to its end.
C19_Witness ==
  \E c \in Generators :
    /\ call[c].wire = WireOf(FrameKit, <<5, 1>>, TRUE)
    /\ call[c].term = "eof"
    /\ Texts(call[c].out) = <<Hi>>

(***************************************************************************)
(* C16: a read that fails ends the sequence in error.  The step yields     *)
(* nothing, answers the pending pull with the read's own error and         *)
(* releases the reader; from then on the generator stays ended with that   *)
(* error, its values as they were, no further byte read and the reader     *)
(* released exactly once.                                                  *)
(***************************************************************************)
C16_ErroredState ==
  \A c \in Generators :
    LET k == call[c] IN
    k.term = "readerror" =>
      /\ k.pc = "completed" /\ k.error = Error("read")
      /\ k.reader = "released" /\ k.releases = 1

C16_ErroredStep ==
  \A c \in Calls :
    /\ (call[c].pc = "awaitingRead" /\ call'[c].term = "readerror") =>
         /\ call'[c].last = "error"
         /\ call'[c].out = call[c].out
         /\ call'[c].pos = call[c].pos
         /\ call'[c].releases = call[c].releases + 1
    /\ call[c].term = "readerror" =>
         /\ call'[c].pc = "completed" /\ call'[c].term = "readerror"
         /\ call'[c].error = call[c].error
         /\ call'[c].out = call[c].out
         /\ call'[c].pos = call[c].pos
         /\ call'[c].releases = call[c].releases

C16_ReadFailurePropagates == []C16_ErroredState /\ [][C16_ErroredStep]_vars

\* A read failed after a value had been yielded, with bytes still unread.
C16_Witness ==
  \E c \in Generators :
    /\ call[c].term = "readerror" /\ call[c].last = "error"
    /\ Len(call[c].out) >= 1
    /\ call[c].pos < Len(call[c].wire)

(***************************************************************************)
(* C17: the end of the sequence is absorbing, whichever way it was reached *)
(* (end of the body, 'data: [DONE]', the consumer's return, a failed       *)
(* read): a generator that has ended stays ended, and a later pull answers *)
(* done, yields nothing, reads nothing and releases nothing.               *)
(***************************************************************************)
C17_EndedState ==
  \A c \in Generators :
    call[c].pc = "completed" <=> call[c].term \in {"eof", "done", "return", "readerror"}

C17_EndedStep ==
  \A c \in Calls :
    (call[c].op = "stream" /\ call[c].pc = "completed") =>
      /\ call'[c].pc = "completed" /\ call'[c].term = call[c].term
      /\ call'[c].out = call[c].out
      /\ call'[c].pos = call[c].pos
      /\ call'[c].releases = call[c].releases /\ call'[c].reader = call[c].reader
      /\ call'[c] # call[c] => call'[c].last = "done"

C17_TerminalAbsorbing == []C17_EndedState /\ [][C17_EndedStep]_vars

\* A pull after the read had failed (and after values had been yielded) was
\* answered done.
C17_Witness ==
  \E c \in Generators :
    /\ call[c].term = "readerror" /\ call[c].last = "done"
    /\ Len(call[c].out) >= 1

(***************************************************************************)
(* C18: reads follow the consumer's pulls.  A generator that has not been  *)
(* pulled has read nothing; the generator comes to await a read only from  *)
(* a pull (or from the read before, whose lines it has finished); bytes    *)
(* are read only by a generator that awaits its read, and by then every    *)
(* complete line read before has been dealt with and its value yielded, in *)
(* order, so no byte of the next chunk is read before.                     *)
(***************************************************************************)
C18_DemandState ==
  \A c \in Generators :
    LET k == call[c] IN
    /\ k.pc = "suspendedStart" => k.pos = 0 /\ k.out = <<>> /\ k.last = "none"
    /\ k.pc = "awaitingRead" =>
         /\ k.lines = <<>>
         /\ Texts(k.out) = ExpectedTexts(CompleteLines(ReadText(k)))

C18_DemandStep ==
  \A c \in Calls :
    /\ call'[c].pos # call[c].pos =>
         call[c].pc = "awaitingRead" /\ call[c].lines = <<>>
    /\ (call'[c].pc = "awaitingRead" /\ call[c].pc # "awaitingRead") =>
         /\ call[c].pc \in {"suspendedStart", "suspendedYield"}
         /\ call[c].consumer = "active"
         /\ call'[c].pos = call[c].pos
    /\ call[c].pc \in {"suspendedStart", "suspendedYield"} =>
         call'[c].pos = call[c].pos /\ IsPrefix(call[c].out, call'[c].out)

C18_ReadsOnDemand == []C18_DemandState /\ [][C18_DemandStep]_vars

\* A chunk with two frames was read at once: the first value is out and the
\* second line waits for the next pull.
C18_Witness ==
  \E c \in Generators :
    /\ call[c].wire = Wire(<<1, 4>>, TRUE)
    /\ call[c].pc = "suspendedYield"
    /\ Len(call[c].out) = 1
    /\ \E i \in 1..Len(call[c].lines) : HasText(call[c].lines[i])

(***************************************************************************)
(* C20: with a body of finitely many bytes that then reports its end (or   *)
(* holds a 'data: [DONE]' line) and a consumer that keeps pulling, every   *)
(* generator comes to its end with the reader released, whatever the lines *)
(* of the body are (malformed frames, lines without prefix, empty lines)   *)
(* and however often an empty chunk arrives.                               *)
(***************************************************************************)
C20_EventuallyReleased ==
  (call[1].op = "stream" /\ call[1].pc \in GeneratorStates)
    ~> (call[1].pc = "completed" /\ call[1].reader = "released" /\ call[1].releases = 1)

\* A body of a malformed frame and a line without prefix, read to its end.
C20_Witness ==
  \E c \in Generators :
    /\ call[c].wire = Wire(<<3, 6>>, TRUE)
    /\ call[c].pc = "completed" /\ call[c].term = "eof"
    /\ call[c].reader = "released"

====
